---- MODULE Spec2Model ----
(***************************************************************************)
(* Version lifecycle of cvm (src/src/lib/version-manager.ts): the store    *)
(* under ~/.cvm (version directories, the `current` symlink, the           *)
(* bin/claude symlink), the plugin registry, and install / use /           *)
(* uninstall / clean / cleanExcept as the code performs them.              *)
(*                                                                         *)
(* A path is the sequence of its segments from the filesystem root.  A     *)
(* version identifier is the sequence of the segments of the string the    *)
(* caller passed, split on the path separator: "2.0.9" is <<"2.0.9">>,     *)
(* "./2.0.9" is <<".", "2.0.9">>.  Two identifiers are the same string     *)
(* exactly when they are the same sequence.                                *)
(***************************************************************************)
EXTENDS Integers, Sequences, FiniteSets, TLC

VARIABLES files, symlinks, keepTarballs, plugins, last, probe, procs

vars == <<files, symlinks, keepTarballs, plugins, last, probe, procs>>

(***************************************************************************)
(* Bounds of the model.                                                    *)
(***************************************************************************)
NumVersions == 2
MaxPlugins == 2
MaxChunks == 2

\* The version names published in the registry that the runs draw from.
VersionNames == <<"1.1.0", "1.0.101", "2.0.9", "2.0.42">>

Min(a, b) == IF a < b THEN a ELSE b

Versions == {VersionNames[i] : i \in 1..Min(NumVersions, Len(VersionNames))}

\* Identifiers a caller may pass: a version name, and strings that name the
\* same directory under versions/ through a "." or a ".." segment.
PlainIds == {<<v>> : v \in Versions}
AliasIds == {<<".", v>> : v \in Versions} \cup {<<"..", "versions", v>> : v \in Versions}
Ids == PlainIds \cup AliasIds

(***************************************************************************)
(* Paths (node's path module).                                             *)
(***************************************************************************)
RECURSIVE normalize(_, _)
normalize(stack, rest) ==
  IF rest = <<>> THEN stack
  ELSE LET seg == Head(rest) IN
       IF seg = "." \/ seg = "" THEN normalize(stack, Tail(rest))
       ELSE IF seg = ".."
            THEN normalize(IF stack = <<>> THEN <<>> ELSE SubSeq(stack, 1, Len(stack) - 1),
                           Tail(rest))
            ELSE normalize(Append(stack, seg), Tail(rest))

\* path.join(base, rel): concatenates and normalizes lexically.
pathJoin(base, rel) == normalize(<<>>, base \o rel)

\* path.basename(p) of a normalized path: its last segment.
basename(p) == IF p = <<>> THEN "" ELSE p[Len(p)]

homedir == <<"home">>
cvmDir == pathJoin(homedir, <<".cvm">>)
versionsDir == pathJoin(cvmDir, <<"versions">>)
currentLink == pathJoin(cvmDir, <<"current">>)
binDir == pathJoin(cvmDir, <<"bin">>)
tempDir == pathJoin(cvmDir, <<"temp">>)
cvmClaudeBin == pathJoin(binDir, <<"claude">>)

versionDirOf(version) == pathJoin(versionsDir, version)
claudeBinOf(version) ==
  pathJoin(versionDirOf(version), <<"installed", "node_modules", ".bin", "claude">>)

(***************************************************************************)
(* The filesystem (node's fs module) over a store s = [files, symlinks]:   *)
(* files is the set of paths of existing directories and regular files,    *)
(* symlinks the set of [path, target] of existing symbolic links.          *)
(***************************************************************************)
IsPrefix(p, q) == Len(p) <= Len(q) /\ SubSeq(q, 1, Len(p)) = p

Prefixes(p) == {SubSeq(p, 1, k) : k \in 0..Len(p)}

linkAt(s, p) == {l \in s.symlinks : l.path = p}

\* lstat succeeds: something (a link, a file, a directory) is at p.
lexists(s, p) == p \in s.files \/ linkAt(s, p) # {}

\* fs.existsSync follows a symbolic link: a dangling link does not exist.
existsSync(s, p) ==
  IF linkAt(s, p) # {}
  THEN (CHOOSE l \in linkAt(s, p) : TRUE).target \in s.files
  ELSE p \in s.files

\* fs.mkdirSync(p, {recursive: true})
mkdirSync(s, p) == [s EXCEPT !.files = @ \cup Prefixes(p)]

\* fs.writeFileSync / fs.copyFileSync: the file at p exists afterwards.
writeFileSync(s, p) == [s EXCEPT !.files = @ \cup {p}]

\* fs.rmSync(p, {recursive: true, force: true})
rmSync(s, p) ==
  [files |-> {q \in s.files : ~IsPrefix(p, q)},
   symlinks |-> {l \in s.symlinks : ~IsPrefix(p, l.path)}]

\* fs.unlinkSync(p)
unlinkSync(s, p) ==
  [files |-> s.files \ {p}, symlinks |-> {l \in s.symlinks : l.path # p}]

\* fs.symlinkSync(target, p) when nothing is at p (otherwise it throws EEXIST).
symlinkSync(s, target, p) ==
  [s EXCEPT !.symlinks = @ \cup {[path |-> p, target |-> target]}]

store == [files |-> files, symlinks |-> symlinks]

(***************************************************************************)
(* Results of a call: the store it leaves, the error it rejects with       *)
(* ("none" when it returns), what the error carries (the identifier its    *)
(* message names, or the plugin's own error object), the trace of the      *)
(* call (<<plugin position, hook name, outcome>> for each hook invoked and *)
(* downloadEvent for the registry download, in order), and whether the     *)
(* download was started.                                                   *)
(***************************************************************************)
null == <<>>

Result(s, err, errId, hooks, fetched) ==
  [store |-> s, err |-> err, errId |-> errId, hooks |-> hooks, fetched |-> fetched]

(***************************************************************************)
(* getCurrentVersion: basename of the link's recorded target, null when    *)
(* readlinkSync throws (no link at the path).                              *)
(***************************************************************************)
readlinkSync(s, p) ==
  IF linkAt(s, p) = {} THEN [threw |-> TRUE, target |-> <<>>]
  ELSE [threw |-> FALSE, target |-> (CHOOSE l \in linkAt(s, p) : TRUE).target]

getCurrentVersionIfInstalled(s) ==
  LET r == readlinkSync(s, currentLink) IN
  IF r.threw \/ r.target \notin s.files THEN null ELSE <<basename(r.target)>>

getCurrentVersion(s) ==
  LET r == readlinkSync(s, currentLink) IN
  IF r.threw THEN null ELSE <<basename(r.target)>>

isInstalled(s, version) == existsSync(s, versionDirOf(version))

(***************************************************************************)
(* Plugins.  The registry holds plugin numbers in registration order;      *)
(* PluginHooks gives the lifecycle hooks a plugin implements.              *)
(***************************************************************************)
AllHooks == {"beforeInstall", "afterInstall", "beforeSwitch", "afterSwitch",
             "beforeUninstall", "afterUninstall"}

PluginHooks(p) ==
  IF p % 2 = 1 THEN AllHooks ELSE {"beforeInstall", "afterInstall", "afterSwitch"}

\* The plugins whose hook may throw in a dispatch of hookName; 0: none throws.
Throwers(hookName) ==
  {0} \cup {i \in 1..Len(plugins) : hookName \in PluginHooks(plugins[i])}

\* The error object that the hook hookName of the plugin at position p throws.
pluginError(p, hookName) == <<"thrown by", ToString(p), hookName>>

\* for (const plugin of this.plugins): the plugins the loop reaches when the
\* hook of the plugin at position t throws (t = 0: none throws).
dispatchAll(hookName, t) ==
  SelectSeq([i \in 1..Len(plugins) |-> i],
            LAMBDA i : hookName \in PluginHooks(plugins[i]))

dispatchReversed(hookName, t) ==
  LET called == SelectSeq([i \in 1..Len(plugins) |-> i],
                          LAMBDA i : hookName \in PluginHooks(plugins[i])
                                     /\ (t = 0 \/ i >= t))
  IN [k \in 1..Len(called) |-> called[Len(called) + 1 - k]]

dispatched(hookName, t) ==
  SelectSeq([i \in 1..Len(plugins) |-> i],
            LAMBDA i : hookName \in PluginHooks(plugins[i]) /\ (t = 0 \/ i <= t))

executeHookSwallows(hookName, t) ==
  LET called == dispatched(hookName, t)
  IN [calls |-> [k \in 1..Len(called) |->
                   <<called[k], hookName, IF called[k] = t THEN "threw" ELSE "returned">>],
      threw |-> FALSE,
      error |-> null]

\* executeHook(hookName) when the hook of the plugin at position t throws
\* (t = 0: no hook throws): the hooks invoked, in order, each awaited to its
\* outcome before the next, and whether the dispatch threw.
executeHook(hookName, t) ==
  LET called == dispatched(hookName, t)
  IN [calls |-> [k \in 1..Len(called) |->
                   <<called[k], hookName, IF called[k] = t THEN "threw" ELSE "returned">>],
      threw |-> t # 0,
      error |-> IF t # 0 THEN pluginError(t, hookName) ELSE null]

(***************************************************************************)
(* install(version).  fail is the step of the artifact provider that       *)
(* fails ("none", "download", "extract", "npm"); tb and ta are the plugins *)
(* whose beforeInstall / afterInstall hook throws (0: none).               *)
(***************************************************************************)
Failures == {"none", "download", "extract", "npm"}

\* this.download(version) in the trace of an install.
downloadEvent == <<0, "download", "started">>

\* npm pack produces the tarball only for a version the registry publishes.
Published(version) == version \in PlainIds

\* anthropic-ai-claude-code-${version}.tgz
tarballName(version) == <<"anthropic-ai-claude-code.tgz">> \o version

\* "Check if already installed"
alwaysReinstall(s, version) == FALSE

alreadyInstalled(s, version) == existsSync(s, versionDirOf(version))

\* catch: "Cleanup on failure"
cleanupSkipped(s, versionDir) == s

cleanupEveryVersion(s, versionDir) == rmSync(s, versionsDir)

cleanupOnFailure(s, versionDir) ==
  IF existsSync(s, versionDir) THEN rmSync(s, versionDir) ELSE s

install(s, version, tb, fail, ta) ==
  LET versionDir == versionDirOf(version)
      before == executeHook("beforeInstall", tb)
      after == executeHook("afterInstall", ta)
      rawDir == pathJoin(versionDir, <<"raw">>)
      extractedDir == pathJoin(versionDir, <<"extracted">>)
      installDir == pathJoin(versionsDir, version \o <<"installed">>)
      tarballPath == tempDir \o tarballName(version)
      step == IF ~Published(version) THEN "download" ELSE fail
      \* mkdirSync(rawDir), mkdirSync(extractedDir)
      s1 == mkdirSync(mkdirSync(s, rawDir), extractedDir)
      \* download(version): mkdir temp, npm pack
      s2 == mkdirSync(s1, tempDir)
      s3 == writeFileSync(s2, tarballPath)
      \* copyFileSync(tarballPath, rawTarball)
      s4 == writeFileSync(s3, rawDir \o tarballName(version))
      \* extract(tarballPath, extractedDir)
      s5 == writeFileSync(s4, pathJoin(extractedDir, <<"package.json">>))
      \* npmInstall(version, extractedDir)
      s6 == writeFileSync(mkdirSync(s5, installDir), pathJoin(installDir, <<"package.json">>))
      s7 == writeFileSync(s6, claudeBinOf(version))
      \* disableAutoUpdates(version)
      s8 == writeFileSync(s7, pathJoin(installDir, <<".claude-settings.json">>))
      \* clean up temp
      s9 == IF existsSync(s8, tempDir) THEN rmSync(s8, tempDir) ELSE s8
      failed(sx, calls) ==
        Result(cleanupOnFailure(sx, versionDir), "InstallFailed", version, calls, TRUE)
  IN IF alreadyInstalled(s, version) THEN Result(s, "none", null, <<>>, FALSE)
     ELSE IF before.threw THEN Result(s, "HookError", before.error, before.calls, FALSE)
     ELSE IF step = "download" THEN failed(s2, before.calls \o <<downloadEvent>>)
     ELSE IF step = "extract" THEN failed(s4, before.calls \o <<downloadEvent>>)
     ELSE IF step = "npm" THEN failed(s6, before.calls \o <<downloadEvent>>)
     ELSE IF after.threw
          THEN failed(s9, before.calls \o <<downloadEvent>> \o after.calls)
     ELSE Result(s9, "none", null, before.calls \o <<downloadEvent>> \o after.calls, TRUE)

(***************************************************************************)
(* use(version).  tb and ta are the plugins whose beforeSwitch /           *)
(* afterSwitch hook throws (0: none).  A step that throws (symlinkSync     *)
(* onto an existing entry: EEXIST) ends the call where it stands.          *)
(***************************************************************************)
\* if (!fs.existsSync(versionDir)) throw
useAnyVersion(s, versionDir) == FALSE

useNotInstalled(s, versionDir) == ~existsSync(s, versionDir)

\* "Update current symlink"
updateCurrentLink(s, versionDir) ==
  LET s1 == IF existsSync(s, currentLink) THEN unlinkSync(s, currentLink) ELSE s
  IN IF lexists(s1, currentLink) THEN [store |-> s1, threw |-> TRUE]
     ELSE [store |-> symlinkSync(s1, versionDir, currentLink), threw |-> FALSE]

\* "Update bin symlink"
keepBinLink(s, versionDir) ==
  LET claudeBin == pathJoin(versionDir, <<"installed", "node_modules", ".bin", "claude">>)
  IN IF existsSync(s, claudeBin) /\ ~lexists(s, cvmClaudeBin)
     THEN [store |-> symlinkSync(s, claudeBin, cvmClaudeBin), threw |-> FALSE]
     ELSE [store |-> s, threw |-> FALSE]

updateBinLink(s, versionDir) ==
  LET claudeBin == pathJoin(versionDir, <<"installed", "node_modules", ".bin", "claude">>)
      s1 == IF existsSync(s, cvmClaudeBin) THEN unlinkSync(s, cvmClaudeBin) ELSE s
  IN IF ~existsSync(s1, claudeBin) THEN [store |-> s1, threw |-> FALSE]
     ELSE IF lexists(s1, cvmClaudeBin) THEN [store |-> s1, threw |-> TRUE]
     ELSE [store |-> symlinkSync(s1, claudeBin, cvmClaudeBin), threw |-> FALSE]

use(s, version, tb, ta) ==
  LET versionDir == versionDirOf(version)
      before == executeHook("beforeSwitch", tb)
      after == executeHook("afterSwitch", ta)
      cur == updateCurrentLink(s, versionDir)
      bin == updateBinLink(cur.store, versionDir)
  IN IF useNotInstalled(s, versionDir) THEN Result(s, "NotInstalled", version, <<>>, FALSE)
     ELSE IF before.threw THEN Result(s, "HookError", before.error, before.calls, FALSE)
     ELSE IF cur.threw THEN Result(cur.store, "EEXIST", null, before.calls, FALSE)
     ELSE IF bin.threw THEN Result(bin.store, "EEXIST", null, before.calls, FALSE)
     ELSE Result(bin.store, IF after.threw THEN "HookError" ELSE "none", after.error,
                 before.calls \o after.calls, FALSE)

(***************************************************************************)
(* uninstall(version).  tb and ta are the plugins whose beforeUninstall /  *)
(* afterUninstall hook throws (0: none).                                   *)
(***************************************************************************)
\* fs.rmSync(versionDir, { recursive: true, force: true })
removeAllVersions(s, versionDir) == rmSync(s, versionsDir)

removeVersionDir(s, versionDir) == rmSync(s, versionDir)

uninstall(s, version, tb, ta) ==
  LET versionDir == versionDirOf(version)
      current == getCurrentVersion(s)
      before == executeHook("beforeUninstall", tb)
      after == executeHook("afterUninstall", ta)
  IN IF ~existsSync(s, versionDir) THEN Result(s, "NotInstalled", version, <<>>, FALSE)
     ELSE IF current = version THEN Result(s, "ActiveVersionProtected", version, <<>>, FALSE)
     ELSE IF before.threw THEN Result(s, "HookError", before.error, before.calls, FALSE)
     ELSE Result(removeVersionDir(s, versionDir),
                 IF after.threw THEN "HookError" ELSE "none", after.error,
                 before.calls \o after.calls, FALSE)

(***************************************************************************)
(* clean(version) under the configuration value keep (keepTarballs).       *)
(***************************************************************************)
\* if (current === version) throw
cleanUnguarded(s, version) == FALSE

cleanIsActive(s, version) == getCurrentVersion(s) = version

\* const keepTarballs = this.config.get('keepTarballs'); if (!keepTarballs) ...
keepIgnored(s, versionDir, keep) == rmSync(s, versionDir)

removeUnlessKept(s, versionDir, keep) == IF ~keep THEN rmSync(s, versionDir) ELSE s

clean(s, version, keep) ==
  LET versionDir == versionDirOf(version)
      extractedDir == pathJoin(versionDir, <<"extracted">>)
      installedDir == pathJoin(versionDir, <<"installed">>)
      s1 == IF existsSync(s, extractedDir) THEN rmSync(s, extractedDir) ELSE s
      s2 == IF existsSync(s1, installedDir) THEN rmSync(s1, installedDir) ELSE s1
  IN IF ~existsSync(s, versionDir) THEN Result(s, "NotInstalled", version, <<>>, FALSE)
     ELSE IF cleanIsActive(s, version)
          THEN Result(s, "ActiveVersionProtected", version, <<>>, FALSE)
     ELSE Result(removeUnlessKept(s2, versionDir, keep), "none", null, <<>>, FALSE)

(***************************************************************************)
(* getInstalledVersions: the names under versions/, sorted by the          *)
(* comparator parseVersion(a) - parseVersion(b).  order is the order in    *)
(* which readdirSync lists the names; Array.prototype.sort is stable.      *)
(***************************************************************************)
\* v.split('.').map(Number)
parts(v) ==
  CASE v = "1.1.0" -> <<1, 1, 0>>
    [] v = "1.0.101" -> <<1, 0, 101>>
    [] v = "2.0.9" -> <<2, 0, 9>>
    [] v = "2.0.42" -> <<2, 0, 42>>

parseVersion(v) == parts(v)[1] * 10000 + parts(v)[2] * 100 + parts(v)[3]

readdirSync(s, dir) ==
  {q[Len(dir) + 1] : q \in {f \in s.files : IsPrefix(dir, f) /\ Len(f) > Len(dir)}}

\* The orders in which readdirSync may list a set of names.
Orders(names) ==
  {o \in [1..Cardinality(names) -> names] : \A n \in names : \E i \in DOMAIN o : o[i] = n}

insertSorted(sorted, v) ==
  LET k == Cardinality({i \in 1..Len(sorted) : parseVersion(sorted[i]) - parseVersion(v) <= 0})
  IN SubSeq(sorted, 1, k) \o <<v>> \o SubSeq(sorted, k + 1, Len(sorted))

RECURSIVE sortVersions(_)
sortVersions(order) ==
  IF order = <<>> THEN <<>>
  ELSE insertSorted(sortVersions(SubSeq(order, 1, Len(order) - 1)), order[Len(order)])

getInstalledVersions(s, order) ==
  IF ~existsSync(s, versionsDir) THEN <<>> ELSE sortVersions(order)

(***************************************************************************)
(* cleanExcept(exceptVersions): cleans every installed version that is     *)
(* neither in exceptVersions nor the current one; a failing clean is       *)
(* reported and skipped.  The trace of the call holds, in order,           *)
(* <<0, version, "cleaned" or "failed">> for each clean attempted.         *)
(***************************************************************************)
\* catch (error): warn, and go on with the versions that remain.
abortOnFailure(remaining) == <<>>

continueAfterFailure(remaining) == remaining

\* await this.clean(version) in the loop; failing is the version whose clean
\* throws a filesystem error at its first removal (null: none does).
cleanAttempt(s, version, keep, failing) ==
  IF version = failing THEN Result(s, "StorageError", version, <<>>, FALSE)
  ELSE clean(s, version, keep)

RECURSIVE cleanEach(_, _, _, _, _)
cleanEach(s, installed, exceptions, keep, failing) ==
  IF installed = <<>> THEN [store |-> s, attempts |-> <<>>]
  ELSE LET version == <<Head(installed)>>
           r == cleanAttempt(s, version, keep, failing)
       IN IF version \in exceptions
          THEN cleanEach(s, Tail(installed), exceptions, keep, failing)
          ELSE LET rest == cleanEach(r.store,
                                     IF r.err = "none" THEN Tail(installed)
                                     ELSE continueAfterFailure(Tail(installed)),
                                     exceptions, keep, failing)
               IN [store |-> rest.store,
                   attempts |-> << <<0, version[1],
                                     IF r.err = "none" THEN "cleaned" ELSE "failed">> >>
                                  \o rest.attempts]

cleanExcept(s, exceptVersions, order, keep, failing) ==
  LET installed == getInstalledVersions(s, order)
      current == getCurrentVersion(s)
      exceptions == IF current # null /\ current # <<"">>
                    THEN exceptVersions \cup {current} ELSE exceptVersions
      done == cleanEach(s, installed, exceptions, keep, failing)
  IN Result(done.store, "none", null, done.attempts, FALSE)

(***************************************************************************)
(* isVersionViable(version): the viability probe.  probe is the state of   *)
(* one probe: where the subprocess is (pc), the accumulated output (the    *)
(* chunks received, in order of arrival), the timeout timer, the timedOut  *)
(* flag, the signal sent by proc.kill, the exit code of the subprocess,    *)
(* what the promise settled to, and the handler that ran last.             *)
(***************************************************************************)
\* Chunks a stream may deliver; a marker may arrive split over two chunks.
Chunks == {"needs update", "needs ", "update", "hello"}

\* output.includes('1.0.24') || output.includes('needs update'), over the
\* concatenation of the chunks.
includesMarker(output) ==
  \/ \E k \in 1..Len(output) : output[k] = "needs update"
  \/ \E k \in 1..(Len(output) - 1) : output[k] = "needs " /\ output[k + 1] = "update"

ExitCodes == {"0", "1", "null"}

pending == [kind |-> "pending", reason |-> "none"]
viable == [kind |-> "viable", reason |-> "none"]
needsUpgrade == [kind |-> "not viable", reason |-> "requires update"]
binaryNotFound == [kind |-> "not viable", reason |-> "binary not found"]
failedToSpawn == [kind |-> "not viable", reason |-> "failed to spawn"]
exitedWith(code) == [kind |-> "not viable", reason |-> "exited with code " \o code]
notInstalledError == [kind |-> "rejected", reason |-> "not installed"]

NoProbe ==
  [pc |-> "idle", version |-> null, output |-> <<>>, timer |-> "unset",
   timedOut |-> FALSE, signal |-> "none", code |-> "none", result |-> pending,
   handler |-> "none"]

resolveOverwrites(p, value) == [p EXCEPT !.result = value]

\* resolve(value): the promise keeps its first settlement.
resolve(p, value) == IF p.result = pending THEN [p EXCEPT !.result = value] ELSE p

\* proc.kill(sig): signals the subprocess if it has not exited.
kill(p, sig) ==
  IF p.pc = "running" /\ p.signal = "none" THEN [p EXCEPT !.signal = sig] ELSE p

clearTimeout(p) == IF p.timer = "armed" THEN [p EXCEPT !.timer = "cleared"] ELSE p

\* The preconditions and the spawn.  spawned: the subprocess started;
\* otherwise the 'error' event is pending.
isVersionViable(s, version, spawned) ==
  LET p == [NoProbe EXCEPT !.version = version, !.handler = "start"]
  IN IF ~isInstalled(s, version)
     THEN [p EXCEPT !.pc = "done", !.result = notInstalledError]
     ELSE IF ~existsSync(s, claudeBinOf(version))
     THEN [p EXCEPT !.pc = "done", !.result = binaryNotFound]
     ELSE [p EXCEPT !.pc = IF spawned THEN "running" ELSE "spawnFailed",
                    !.timer = "armed"]

\* proc.stdout.on('data')
onStdout(p, data) ==
  [p EXCEPT !.output = Append(@, data), !.handler = "stdout"]

\* proc.stderr.on('data')
onStderr(p, data) ==
  LET p1 == [p EXCEPT !.output = Append(@, data), !.handler = "stderr"]
  IN IF includesMarker(p1.output)
     THEN resolve(kill(clearTimeout(p1), "SIGTERM"), needsUpgrade)
     ELSE p1

\* The setTimeout(..., timeoutMs) callback.
timeoutAlwaysViable(p) ==
  resolve(kill([p EXCEPT !.timer = "fired", !.timedOut = TRUE, !.handler = "timeout"],
               "SIGKILL"), viable)

onTimeout(p) ==
  LET p1 == kill([p EXCEPT !.timer = "fired", !.timedOut = TRUE, !.handler = "timeout"],
                 "SIGKILL")
  IN IF includesMarker(p1.output) THEN resolve(p1, needsUpgrade)
     ELSE resolve(p1, viable)

\* proc.on('close')
onClose(p, code) ==
  LET p1 == [clearTimeout(p) EXCEPT !.pc = "closed", !.handler = "close"]
  IN IF p1.timedOut THEN p1
     ELSE IF includesMarker(p1.output) THEN resolve(p1, needsUpgrade)
     ELSE IF code = "0" \/ code = "null" THEN resolve(p1, viable)
     ELSE resolve(p1, exitedWith(code))

\* proc.on('error')
errorUnhandled(p) == [clearTimeout(p) EXCEPT !.pc = "errored", !.handler = "error"]

onError(p) ==
  resolve([clearTimeout(p) EXCEPT !.pc = "errored", !.handler = "error"], failedToSpawn)

(***************************************************************************)
(* The state machine.  Each command runs in a cvm process of its own, one  *)
(* at a time to completion.  last is the call of the running process: its *)
(* name, the identifier (or the keep-set) passed, and its result; it is    *)
(* Idle between processes.                                                 *)
(***************************************************************************)
Call(op, id, keep, r, ret) ==
  [op |-> op, id |-> id, keep |-> keep, err |-> r.err, errId |-> r.errId,
   hooks |-> r.hooks, fetched |-> r.fetched, ret |-> ret]

Idle == Call("idle", null, {}, Result(store, "none", null, <<>>, FALSE), null)

Commit(op, id, keep, r) ==
  /\ last = Idle
  /\ files' = r.store.files
  /\ symlinks' = r.store.symlinks
  /\ last' = Call(op, id, keep, r, null)
  /\ UNCHANGED <<keepTarballs, plugins, probe, procs>>

\* new VersionManager(): ensureDirectories; no plugin registered, default config.
Init ==
  /\ files = Prefixes(cvmDir) \cup Prefixes(versionsDir) \cup Prefixes(binDir)
  /\ symlinks = {}
  /\ keepTarballs = FALSE
  /\ plugins = <<>>
  /\ last = Idle
  /\ probe = NoProbe
  /\ procs = <<>>

\* What can go wrong in an install: one hook throws, or one step fails.
InstallRuns ==
  {<<tb, "none", 0>> : tb \in Throwers("beforeInstall")}
    \cup {<<0, fail, 0>> : fail \in Failures}
    \cup {<<0, "none", ta>> : ta \in Throwers("afterInstall")}

HookRuns(before, after) ==
  {<<tb, 0>> : tb \in Throwers(before)} \cup {<<0, ta>> : ta \in Throwers(after)}

Install(version) ==
  \E run \in InstallRuns :
    Commit("install", version, {}, install(store, version, run[1], run[2], run[3]))

Use(version) ==
  \E run \in HookRuns("beforeSwitch", "afterSwitch") :
    Commit("use", version, {}, use(store, version, run[1], run[2]))

Uninstall(version) ==
  \E run \in HookRuns("beforeUninstall", "afterUninstall") :
    Commit("uninstall", version, {}, uninstall(store, version, run[1], run[2]))

Clean(version) ==
  \E keep \in {keepTarballs} :
    Commit("clean", version, {}, clean(store, version, keep))

\* cleanExcept sees the listing only through getInstalledVersions' sort, so
\* one listing order is taken for each sorted result (a sorted sequence
\* sorts to itself).
CleanExcept(exceptVersions) ==
  \E order \in {sortVersions(o) : o \in Orders(readdirSync(store, versionsDir))},
     failing \in {null} \cup {<<v>> : v \in readdirSync(store, versionsDir)} :
    Commit("cleanExcept", null, exceptVersions,
           cleanExcept(store, exceptVersions, order, keepTarballs, failing))

\* current(): prints getCurrentVersion().
Current ==
  /\ last = Idle
  /\ last' = Call("current", null, {}, Result(store, "none", null, <<>>, FALSE),
                  getCurrentVersion(store))
  /\ UNCHANGED <<files, symlinks, keepTarballs, plugins, probe, procs>>

\* getInstalledVersions(), as a plugin or getPluginContext calls it.
GetInstalledVersions ==
  /\ last = Idle
  /\ \E order \in Orders(readdirSync(store, versionsDir)) :
       last' = Call("getInstalledVersions", null, {},
                    Result(store, "none", null, <<>>, FALSE),
                    getInstalledVersions(store, order))
  /\ UNCHANGED <<files, symlinks, keepTarballs, plugins, probe, procs>>

\* cvm config keepTarballs <value>: ConfigManager.set.
ConfigSet(value) ==
  /\ last = Idle
  /\ keepTarballs' = value
  /\ UNCHANGED <<files, symlinks, plugins, last, probe, procs>>

\* if (plugin.onLoad): the plugins of even number implement onLoad.
hasOnLoad(plugin) == plugin % 2 = 0

\* registerPlugin(plugin): the registry afterwards and the hooks invoked.
registerSilently(registry, plugin) ==
  [plugins |-> Append(registry, plugin), calls |-> <<>>]

registerPlugin(registry, plugin) ==
  [plugins |-> Append(registry, plugin),
   calls |-> IF hasOnLoad(plugin)
             THEN << <<Len(registry) + 1, "onLoad", "returned">> >> ELSE <<>>]

\* vm.registerPlugin(plugin) for the next plugin.
RegisterPlugin ==
  /\ last = Idle
  /\ Len(plugins) < MaxPlugins
  /\ LET r == registerPlugin(plugins, Len(plugins) + 1)
     IN /\ plugins' = r.plugins
        /\ last' = Call("registerPlugin", null, {},
                        Result(store, "none", null, r.calls, FALSE), null)
  /\ UNCHANGED <<files, symlinks, keepTarballs, probe, procs>>

\* The command's process ends.
Exit ==
  /\ last # Idle
  /\ last' = Idle
  /\ UNCHANGED <<files, symlinks, keepTarballs, plugins, probe, procs>>

Next ==
  \/ \E version \in Ids : Install(version)
  \/ \E version \in Ids : Use(version)
  \/ \E version \in Ids : Uninstall(version)
  \/ \E version \in Ids : Clean(version)
  \/ \E exceptVersions \in SUBSET PlainIds : CleanExcept(exceptVersions)
  \/ Current
  \/ GetInstalledVersions
  \/ \E value \in BOOLEAN : ConfigSet(value)
  \/ RegisterPlugin
  \/ Exit

Spec == Init /\ [][Next]_vars

(***************************************************************************)
(* The probe as a process: one step per event of the event loop.           *)
(***************************************************************************)
ProbeStep(p) ==
  /\ probe' = p
  /\ UNCHANGED <<files, symlinks, keepTarballs, plugins, last, procs>>

IsVersionViable(version) ==
  /\ probe.pc = "idle"
  /\ \E spawned \in BOOLEAN : ProbeStep(isVersionViable(store, version, spawned))

Stdout(data) ==
  /\ probe.pc \in {"running", "exited"}
  /\ Len(probe.output) < MaxChunks
  /\ ProbeStep(onStdout(probe, data))

Stderr(data) ==
  /\ probe.pc \in {"running", "exited"}
  /\ Len(probe.output) < MaxChunks
  /\ ProbeStep(onStderr(probe, data))

Timeout ==
  /\ probe.pc \in {"running", "exited"}
  /\ probe.timer = "armed"
  /\ ProbeStep(onTimeout(probe))

\* The subprocess exits, by itself or by the signal sent; its exit code is
\* that of the 'close' event that follows once its streams have ended.
ProcessExit(code) ==
  /\ probe.pc = "running"
  /\ probe.signal # "none" => code = "null"
  /\ ProbeStep([probe EXCEPT !.pc = "exited", !.code = code])

\* 'close' follows the exit, and follows 'error' when the spawn failed (with
\* the negative errno as code).
Close ==
  \/ /\ probe.pc = "exited"
     /\ ProbeStep(onClose(probe, probe.code))
  \/ /\ probe.pc = "errored"
     /\ ProbeStep(onClose([probe EXCEPT !.code = "-2"], "-2"))

SpawnError ==
  /\ probe.pc = "spawnFailed"
  /\ ProbeStep(onError(probe))

\* The stores a probe is run on: nothing installed, a version installed, a
\* version cleaned with keepTarballs set (its binary removed).
emptyStore ==
  [files |-> Prefixes(cvmDir) \cup Prefixes(versionsDir) \cup Prefixes(binDir),
   symlinks |-> {}]

ProbeStores ==
  {emptyStore}
    \cup {install(emptyStore, v, 0, "none", 0).store : v \in PlainIds}
    \cup {clean(install(emptyStore, v, 0, "none", 0).store, v, TRUE).store : v \in PlainIds}

ProbeInit ==
  /\ plugins = <<>>
  /\ keepTarballs \in BOOLEAN
  /\ \E s \in ProbeStores : files = s.files /\ symlinks = s.symlinks
  /\ last = Idle
  /\ probe = NoProbe
  /\ procs = <<>>

ProbeNext ==
  \/ \E version \in PlainIds : IsVersionViable(version)
  \/ \E data \in Chunks : Stdout(data)
  \/ \E data \in Chunks : Stderr(data)
  \/ Timeout
  \/ \E code \in ExitCodes : ProcessExit(code)
  \/ Close
  \/ SpawnError

ProbeSpec == ProbeInit /\ [][ProbeNext]_vars

\* The event loop runs a timer's callback once its delay has passed, unless
\* the timer was cleared, and emits the 'error' of a failed spawn on the
\* next tick.
ProbeFairSpec == ProbeSpec /\ WF_vars(Timeout) /\ WF_vars(SpawnError)

(***************************************************************************)
(* The commands step by step.  procs[p] is the cvm process p: the command  *)
(* it runs (op, id), where it stands in the command's code (pc), the local *)
(* currentVersion of use (prev), the error it ended with (err) and, for an  *)
(* install, the step that threw into its catch (cause), what it spawned    *)
(* (ret), and the dispatches it made (log): for each executeHook           *)
(* call the hook name, the arguments and the context handed to the hooks,  *)
(* and the hooks invoked.  A step is one filesystem call or one dispatch,  *)
(* so that the steps of two processes interleave.                          *)
(***************************************************************************)
NoProc ==
  [pc |-> "idle", op |-> "none", id |-> null, prev |-> null, err |-> "none",
   cause |-> "none", ret |-> null, log |-> <<>>]

\* getPluginContext(): the active version and the installed versions, read
\* from the store when it is called.
contextAtStartup(s, order) ==
  [cvmDir |-> cvmDir, currentVersion |-> null, installedVersions |-> <<>>]

getPluginContext(s, order) ==
  [cvmDir |-> cvmDir,
   currentVersion |-> getCurrentVersion(s),
   installedVersions |-> getInstalledVersions(s, order)]

\* The process goes on at pc, leaving the store s.
Goto(p, pc, s) ==
  /\ procs' = [procs EXCEPT ![p].pc = pc]
  /\ files' = s.files
  /\ symlinks' = s.symlinks
  /\ UNCHANGED <<keepTarballs, plugins, last, probe>>

\* throw: the command rejects with err, the store as it stands.
Throw(p, err) ==
  /\ procs' = [procs EXCEPT ![p].pc = "done", ![p].err = err]
  /\ UNCHANGED <<files, symlinks, keepTarballs, plugins, last, probe>>

At_(p, op, pc) == procs[p].op = op /\ procs[p].pc = pc

\* await this.executeHook(hookName, ...args): the context is computed, then
\* the hooks are invoked; the command goes on at next, or at caught when a
\* hook throws.
Dispatch(p, hookName, args, next, caught) ==
  \E t \in Throwers(hookName),
     order \in {sortVersions(o) : o \in Orders(readdirSync(store, versionsDir))} :
    LET d == executeHook(hookName, t)
        entry == [hook |-> hookName, args |-> args,
                  context |-> getPluginContext(store, order), calls |-> d.calls]
    IN /\ procs' = [procs EXCEPT
                      ![p].log = Append(@, entry),
                      ![p].pc = IF d.threw THEN caught ELSE next,
                      ![p].err = IF d.threw THEN "HookError" ELSE @]
       /\ UNCHANGED <<files, symlinks, keepTarballs, plugins, last, probe>>

\* A cvm process starts with a command.
Start(p, op, id) ==
  /\ procs[p].pc = "idle"
  /\ procs' = [procs EXCEPT ![p] = [NoProc EXCEPT !.pc = "check", !.op = op, !.id = id]]
  /\ UNCHANGED <<files, symlinks, keepTarballs, plugins, last, probe>>

\* The process has ended (returned, rejected, or was killed).
ProcExit(p) ==
  /\ procs[p].pc \in {"done", "killed"}
  /\ procs' = [procs EXCEPT ![p] = NoProc]
  /\ UNCHANGED <<files, symlinks, keepTarballs, plugins, last, probe>>

\* kill $PID while cvm install runs.
Kill(p) ==
  /\ procs[p].op = "install"
  /\ procs[p].pc \notin {"idle", "done", "killed"}
  /\ procs' = [procs EXCEPT ![p].pc = "killed"]
  /\ UNCHANGED <<files, symlinks, keepTarballs, plugins, last, probe>>

(***************************************************************************)
(* use(version), step by step.                                             *)
(***************************************************************************)
UseCheck(p) ==
  /\ At_(p, "use", "check")
  /\ IF ~existsSync(store, versionDirOf(procs[p].id))
     THEN Throw(p, "NotInstalled")
     ELSE Goto(p, "getCurrentVersion", store)

UseGetCurrentVersion(p) ==
  /\ At_(p, "use", "getCurrentVersion")
  /\ procs' = [procs EXCEPT ![p].prev = getCurrentVersion(store),
                            ![p].pc = "beforeSwitch"]
  /\ UNCHANGED <<files, symlinks, keepTarballs, plugins, last, probe>>

UseBeforeSwitch(p) ==
  /\ At_(p, "use", "beforeSwitch")
  /\ Dispatch(p, "beforeSwitch", <<procs[p].prev, procs[p].id>>, "currentExists", "done")

\* if (fs.existsSync(this.currentLink))
UseCurrentSkipped(p) ==
  /\ At_(p, "use", "currentExists")
  /\ Goto(p, "binExists", store)

UseCurrentExists(p) ==
  /\ At_(p, "use", "currentExists")
  /\ Goto(p, IF existsSync(store, currentLink) THEN "currentUnlink" ELSE "currentSymlink",
          store)

UseCurrentUnlink(p) ==
  /\ At_(p, "use", "currentUnlink")
  /\ IF ~lexists(store, currentLink) THEN Throw(p, "ENOENT")
     ELSE Goto(p, "currentSymlink", unlinkSync(store, currentLink))

UseCurrentSymlink(p) ==
  /\ At_(p, "use", "currentSymlink")
  /\ IF lexists(store, currentLink) THEN Throw(p, "EEXIST")
     ELSE Goto(p, "binExists",
               symlinkSync(store, versionDirOf(procs[p].id), currentLink))

\* if (fs.existsSync(cvmClaudeBin))
UseBinSkipped(p) ==
  /\ At_(p, "use", "binExists")
  /\ Goto(p, "afterSwitch", store)

UseBinExists(p) ==
  /\ At_(p, "use", "binExists")
  /\ Goto(p, IF existsSync(store, cvmClaudeBin) THEN "binUnlink" ELSE "claudeBinExists",
          store)

UseBinUnlink(p) ==
  /\ At_(p, "use", "binUnlink")
  /\ IF ~lexists(store, cvmClaudeBin) THEN Throw(p, "ENOENT")
     ELSE Goto(p, "claudeBinExists", unlinkSync(store, cvmClaudeBin))

UseClaudeBinExists(p) ==
  /\ At_(p, "use", "claudeBinExists")
  /\ Goto(p, IF existsSync(store, claudeBinOf(procs[p].id)) THEN "binSymlink"
             ELSE "afterSwitch",
          store)

UseBinSymlink(p) ==
  /\ At_(p, "use", "binSymlink")
  /\ IF lexists(store, cvmClaudeBin) THEN Throw(p, "EEXIST")
     ELSE Goto(p, "afterSwitch",
               symlinkSync(store, claudeBinOf(procs[p].id), cvmClaudeBin))

\* afterSwitch dispatched with the active version read again, not the one
\* captured before the switch.
UseAfterSwitchReread(p) ==
  /\ At_(p, "use", "afterSwitch")
  /\ Dispatch(p, "afterSwitch", <<getCurrentVersion(store), procs[p].id>>, "done", "done")

UseAfterSwitch(p) ==
  /\ At_(p, "use", "afterSwitch")
  /\ Dispatch(p, "afterSwitch", <<procs[p].prev, procs[p].id>>, "done", "done")

UseStep(p) ==
  \/ UseCheck(p)
  \/ UseGetCurrentVersion(p)
  \/ UseBeforeSwitch(p)
  \/ UseCurrentExists(p)
  \/ UseCurrentUnlink(p)
  \/ UseCurrentSymlink(p)
  \/ UseBinExists(p)
  \/ UseBinUnlink(p)
  \/ UseClaudeBinExists(p)
  \/ UseBinSymlink(p)
  \/ UseAfterSwitch(p)

(***************************************************************************)
(* install(version), step by step.  A step of the artifact provider        *)
(* (download, extract, npm install) succeeds or throws into the catch.     *)
(***************************************************************************)
\* A step of install throws: control passes to the catch, the store is s.
Caught(p, cause, s) ==
  /\ procs' = [procs EXCEPT ![p].pc = "catch", ![p].cause = cause]
  /\ files' = s.files
  /\ symlinks' = s.symlinks
  /\ UNCHANGED <<keepTarballs, plugins, last, probe>>

InstallCheck(p) ==
  /\ At_(p, "install", "check")
  /\ Goto(p, IF alreadyInstalled(store, procs[p].id) THEN "done" ELSE "beforeInstall", store)

InstallBeforeInstall(p) ==
  /\ At_(p, "install", "beforeInstall")
  /\ Dispatch(p, "beforeInstall", <<procs[p].id>>, "mkdir", "done")

InstallMkdir(p) ==
  /\ At_(p, "install", "mkdir")
  /\ LET versionDir == versionDirOf(procs[p].id)
     IN Goto(p, "download",
             mkdirSync(mkdirSync(store, pathJoin(versionDir, <<"raw">>)),
                       pathJoin(versionDir, <<"extracted">>)))

InstallDownload(p) ==
  /\ At_(p, "install", "download")
  /\ \E ok \in BOOLEAN :
       LET s2 == IF existsSync(store, tempDir) THEN store ELSE mkdirSync(store, tempDir)
       IN IF ok /\ Published(procs[p].id)
          THEN Goto(p, "copy", writeFileSync(s2, tempDir \o tarballName(procs[p].id)))
          ELSE Caught(p, "download", s2)

InstallCopy(p) ==
  /\ At_(p, "install", "copy")
  /\ LET rawDir == pathJoin(versionDirOf(procs[p].id), <<"raw">>)
     IN IF ~existsSync(store, tempDir \o tarballName(procs[p].id))
           \/ ~existsSync(store, rawDir)
        THEN Caught(p, "ENOENT", store)
        ELSE Goto(p, "extract", writeFileSync(store, rawDir \o tarballName(procs[p].id)))

InstallExtract(p) ==
  /\ At_(p, "install", "extract")
  /\ \E ok \in BOOLEAN :
       LET extractedDir == pathJoin(versionDirOf(procs[p].id), <<"extracted">>)
       IN IF ~existsSync(store, tempDir \o tarballName(procs[p].id))
             \/ ~existsSync(store, extractedDir)
          THEN Caught(p, "ENOENT", store)
          ELSE IF ok
          THEN Goto(p, "npmInstall",
                    writeFileSync(store, pathJoin(extractedDir, <<"package.json">>)))
          ELSE Caught(p, "extract", store)

InstallNpmInstall(p) ==
  /\ At_(p, "install", "npmInstall")
  /\ \E ok \in BOOLEAN :
       LET installDir == pathJoin(versionsDir, procs[p].id \o <<"installed">>)
           s6 == writeFileSync(mkdirSync(store, installDir),
                               pathJoin(installDir, <<"package.json">>))
       IN IF ok
          THEN Goto(p, "disableAutoUpdates", writeFileSync(s6, claudeBinOf(procs[p].id)))
          ELSE Caught(p, "npm", s6)

InstallDisableAutoUpdates(p) ==
  /\ At_(p, "install", "disableAutoUpdates")
  /\ LET installDir == pathJoin(versionsDir, procs[p].id \o <<"installed">>)
     IN Goto(p, "cleanTemp",
             writeFileSync(store, pathJoin(installDir, <<".claude-settings.json">>)))

InstallCleanTemp(p) ==
  /\ At_(p, "install", "cleanTemp")
  /\ Goto(p, "afterInstall",
          IF existsSync(store, tempDir) THEN rmSync(store, tempDir) ELSE store)

InstallAfterInstall(p) ==
  /\ At_(p, "install", "afterInstall")
  /\ Dispatch(p, "afterInstall", <<procs[p].id>>, "done", "catch")

InstallCatch(p) ==
  /\ At_(p, "install", "catch")
  /\ LET s == cleanupOnFailure(store, versionDirOf(procs[p].id))
     IN /\ procs' = [procs EXCEPT ![p].pc = "done", ![p].err = "InstallFailed"]
        /\ files' = s.files
        /\ symlinks' = s.symlinks
        /\ UNCHANGED <<keepTarballs, plugins, last, probe>>

InstallStep(p) ==
  \/ InstallCheck(p)
  \/ InstallBeforeInstall(p)
  \/ InstallMkdir(p)
  \/ InstallDownload(p)
  \/ InstallCopy(p)
  \/ InstallExtract(p)
  \/ InstallNpmInstall(p)
  \/ InstallDisableAutoUpdates(p)
  \/ InstallCleanTemp(p)
  \/ InstallAfterInstall(p)
  \/ InstallCatch(p)

(***************************************************************************)
(* uninstall(version), step by step.                                       *)
(***************************************************************************)
UninstallCheck(p) ==
  /\ At_(p, "uninstall", "check")
  /\ IF ~existsSync(store, versionDirOf(procs[p].id))
     THEN Throw(p, "NotInstalled")
     ELSE Goto(p, "getCurrentVersion", store)

UninstallGetCurrentVersion(p) ==
  /\ At_(p, "uninstall", "getCurrentVersion")
  /\ IF getCurrentVersion(store) = procs[p].id
     THEN Throw(p, "ActiveVersionProtected")
     ELSE Goto(p, "beforeUninstall", store)

UninstallBeforeUninstall(p) ==
  /\ At_(p, "uninstall", "beforeUninstall")
  /\ Dispatch(p, "beforeUninstall", <<procs[p].id>>, "rmSync", "done")

\* fs.rmSync(versionDir, { recursive: true, force: true })
UninstallRmSkipped(p) ==
  /\ At_(p, "uninstall", "rmSync")
  /\ Goto(p, "afterUninstall", store)

UninstallRmSync(p) ==
  /\ At_(p, "uninstall", "rmSync")
  /\ Goto(p, "afterUninstall", removeVersionDir(store, versionDirOf(procs[p].id)))

UninstallAfterUninstall(p) ==
  /\ At_(p, "uninstall", "afterUninstall")
  /\ Dispatch(p, "afterUninstall", <<procs[p].id>>, "done", "done")

UninstallStep(p) ==
  \/ UninstallCheck(p)
  \/ UninstallGetCurrentVersion(p)
  \/ UninstallBeforeUninstall(p)
  \/ UninstallRmSync(p)
  \/ UninstallAfterUninstall(p)

(***************************************************************************)
(* cvm claude [--cvm-version X] [...args]: the launcher of the CLI.        *)
(* useVersion is the override (null: the flag was not given); ret is the   *)
(* path of the binary spawned (null: nothing was spawned).                 *)
(***************************************************************************)
\* const version = useVersion || vm.getCurrentVersion()
alwaysCurrent(s, useVersion) == getCurrentVersion(s)

selectVersion(s, useVersion) ==
  IF useVersion # null THEN useVersion ELSE getCurrentVersion(s)

claude(s, useVersion) ==
  LET version == selectVersion(s, useVersion)
      claudePath == pathJoin(homedir, <<".cvm", "versions">> \o version
                                        \o <<"installed", "node_modules", ".bin", "claude">>)
  IN IF version = null THEN [err |-> "NoVersionActive", ret |-> null]
     ELSE IF useVersion # null /\ ~isInstalled(s, useVersion)
          THEN [err |-> "NotInstalled", ret |-> null]
     ELSE IF ~existsSync(s, claudePath) THEN [err |-> "BinaryNotFound", ret |-> null]
     ELSE [err |-> "none", ret |-> claudePath]

Claude(p, useVersion) ==
  /\ procs[p].pc = "idle"
  /\ LET r == claude(store, useVersion)
     IN procs' = [procs EXCEPT ![p] = [NoProc EXCEPT !.pc = "done", !.op = "claude",
                                                       !.id = useVersion, !.err = r.err,
                                                       !.ret = r.ret]]
  /\ UNCHANGED <<files, symlinks, keepTarballs, plugins, last, probe>>

(***************************************************************************)
(* One cvm process at a time, each command step by step: StepSpec.  A      *)
(* plugin that implements every hook is registered.                        *)
(***************************************************************************)
StepInit ==
  /\ plugins = <<1>>
  /\ keepTarballs = FALSE
  /\ files = emptyStore.files
  /\ symlinks = emptyStore.symlinks
  /\ last = Idle
  /\ probe = NoProbe
  /\ procs = <<NoProc>>

StepNext ==
  \/ \E op \in {"install", "use", "uninstall"}, id \in Ids : Start(1, op, id)
  \/ \E useVersion \in {null} \cup Ids : Claude(1, useVersion)
  \/ InstallStep(1)
  \/ UseStep(1)
  \/ UninstallStep(1)
  \/ ProcExit(1)

StepSpec == StepInit /\ [][StepNext]_vars

(***************************************************************************)
(* Installs that may be killed part-way, one cvm process at a time:        *)
(* CrashSpec.                                                              *)
(***************************************************************************)
CrashNext ==
  \/ \E id \in PlainIds : Start(1, "install", id)
  \/ InstallStep(1)
  \/ Kill(1)
  \/ ProcExit(1)

CrashSpec == StepInit /\ [][CrashNext]_vars

(***************************************************************************)
(* Two cvm processes run use(a) and use(b) on one store, their filesystem  *)
(* calls interleaving: RaceSpec.  Both versions are installed; the         *)
(* pointers are absent or set by an earlier use.                           *)
(***************************************************************************)
RECURSIVE installAll(_, _)
installAll(s, ids) ==
  IF ids = {} THEN s
  ELSE LET id == CHOOSE x \in ids : TRUE
       IN installAll(install(s, id, 0, "none", 0).store, ids \ {id})

RaceStores ==
  {installAll(emptyStore, PlainIds)}
    \cup {use(installAll(emptyStore, PlainIds), id, 0, 0).store : id \in PlainIds}

RaceInit ==
  /\ plugins = <<>>
  /\ keepTarballs = FALSE
  /\ \E s \in RaceStores : files = s.files /\ symlinks = s.symlinks
  /\ last = Idle
  /\ probe = NoProbe
  /\ \E a \in PlainIds, b \in PlainIds :
       /\ a # b
       /\ procs = <<[NoProc EXCEPT !.pc = "check", !.op = "use", !.id = a],
                    [NoProc EXCEPT !.pc = "check", !.op = "use", !.id = b]>>

RaceNext == \E p \in {1, 2} : UseStep(p)

RaceSpec == RaceInit /\ [][RaceNext]_vars

(***************************************************************************)
(* Two cvm processes run two commands on one store, their steps            *)
(* interleaving: use(v) with uninstall(v), install(v) with use(v), and     *)
(* install(a) with install(b): PairSpec.                                   *)
(***************************************************************************)
PairStores ==
  {emptyStore}
    \cup {install(emptyStore, v, 0, "none", 0).store : v \in PlainIds}
    \cup RaceStores

Command(op, id) == [NoProc EXCEPT !.pc = "check", !.op = op, !.id = id]

PairCommands ==
  {<<Command("use", v), Command("uninstall", v)>> : v \in PlainIds}
    \cup {<<Command("install", v), Command("use", v)>> : v \in PlainIds}
    \cup {<<Command("install", ab[1]), Command("install", ab[2])>> :
            ab \in {x \in PlainIds \X PlainIds : x[1] # x[2]}}

PairInit ==
  /\ plugins = <<>>
  /\ keepTarballs = FALSE
  /\ \E s \in PairStores : files = s.files /\ symlinks = s.symlinks
  /\ last = Idle
  /\ probe = NoProbe
  /\ procs \in PairCommands

PairNext ==
  \/ \E p \in {1, 2} : InstallStep(p)
  \/ \E p \in {1, 2} : UseStep(p)
  \/ \E p \in {1, 2} : UninstallStep(p)

PairSpec == PairInit /\ [][PairNext]_vars

(***************************************************************************)
(* Loading the plugins directory at the start of a cvm process             *)
(* (loadPlugins of the CLI, PluginLoader): LoaderSpec.  A plugin is the    *)
(* number of the file that defines it; the PluginLoader's Map is a         *)
(* sequence of <<name, plugin>> in insertion order.                        *)
(***************************************************************************)
pluginsDir == pathJoin(cvmDir, <<"plugins">>)

\* Files that may lie in the plugins directory: analyzer.js and analyzer.ts
\* export the same metadata name, broken.js exports no metadata.
PluginFiles == <<"analyzer.js", "analyzer.ts", "logger.js", "reporter.ts", "broken.js",
                 "README.md">>

\* file.endsWith('.js') || file.endsWith('.ts')
isPluginFile(k) == PluginFiles[k] # "README.md"

\* plugin.metadata.name ("": the module has no metadata)
metadataName(k) ==
  CASE PluginFiles[k] \in {"analyzer.js", "analyzer.ts"} -> "analyzer"
    [] PluginFiles[k] = "logger.js" -> "logger"
    [] PluginFiles[k] = "reporter.ts" -> "reporter"
    [] OTHER -> ""

\* Map.prototype.set: replaces the value of an existing key in place.
mapSet(map, name, plugin) ==
  IF \E i \in DOMAIN map : map[i][1] = name
  THEN [i \in DOMAIN map |-> IF map[i][1] = name THEN <<name, plugin>> ELSE map[i]]
  ELSE Append(map, <<name, plugin>>)

\* loadPlugin(pluginPath): throws when the path does not exist or the module
\* has no metadata, and then leaves the Map as it was.
loadUnchecked(s, map, k) ==
  [map |-> mapSet(map, metadataName(k), k), err |-> "none"]

loadPlugin(s, map, k) ==
  IF ~existsSync(s, pluginsDir \o <<PluginFiles[k]>>)
  THEN [map |-> map, err |-> "PluginNotFound"]
  ELSE IF metadataName(k) = "" THEN [map |-> map, err |-> "FailedToLoad"]
  ELSE [map |-> mapSet(map, metadataName(k), k), err |-> "none"]

\* loadPluginsFromDirectory(dir) over the listing order of readdirSync: the
\* Map and the array returned.
RECURSIVE loadPluginsFromDirectory(_, _, _, _)
loadPluginsFromDirectory(s, map, loaded, order) ==
  IF order = <<>> THEN [map |-> map, plugins |-> loaded]
  ELSE LET k == Head(order)
           r == loadPlugin(s, map, k)
       IN IF isPluginFile(k) /\ r.err = "none"
          THEN loadPluginsFromDirectory(s, r.map, Append(loaded, k), Tail(order))
          ELSE loadPluginsFromDirectory(s, map, loaded, Tail(order))

\* getPlugins(): Array.from(this.plugins.values())
getPlugins(map) == [i \in DOMAIN map |-> map[i][2]]

\* The numbers of the files in the plugins directory.
pluginFilesIn(s) ==
  {k \in DOMAIN PluginFiles : pluginsDir \o <<PluginFiles[k]>> \in s.files}

\* A file is put into ~/.cvm/plugins before cvm starts.
AddPluginFile(k) ==
  /\ last = Idle
  /\ plugins = <<>>
  /\ k \notin pluginFilesIn(store)
  /\ files' = writeFileSync(mkdirSync(store, pluginsDir), pluginsDir \o <<PluginFiles[k]>>).files
  /\ UNCHANGED <<symlinks, keepTarballs, plugins, last, probe, procs>>

\* loadPlugins(vm, loader): every plugin returned by the loader is
\* registered; ret is what loader.getPlugins() returns afterwards.
LoadPlugins ==
  /\ last = Idle
  /\ plugins = <<>>
  /\ \E order \in Orders(pluginFilesIn(store)) :
       LET r == IF existsSync(store, pluginsDir)
                THEN loadPluginsFromDirectory(store, <<>>, <<>>, order)
                ELSE [map |-> <<>>, plugins |-> <<>>]
       IN /\ plugins' = plugins \o r.plugins
          /\ last' = Call("loadPlugins", null, {}, Result(store, "none", null, <<>>, FALSE),
                          getPlugins(r.map))
  /\ UNCHANGED <<files, symlinks, keepTarballs, probe, procs>>

\* loader.loadPlugin(path) on a new PluginLoader, for the path of a file of
\* the plugins directory, present or not; ret is getPlugins() afterwards.
LoadPlugin(k) ==
  /\ last = Idle
  /\ plugins = <<>>
  /\ LET r == loadPlugin(store, <<>>, k)
     IN last' = Call("loadPlugin", <<PluginFiles[k]>>, {},
                     Result(store, r.err, <<PluginFiles[k]>>, <<>>, FALSE), getPlugins(r.map))
  /\ UNCHANGED <<files, symlinks, keepTarballs, plugins, probe, procs>>

LoaderNext ==
  \/ \E k \in DOMAIN PluginFiles : AddPluginFile(k)
  \/ LoadPlugins
  \/ \E k \in DOMAIN PluginFiles : LoadPlugin(k)

LoaderSpec == Init /\ [][LoaderNext]_vars

(***************************************************************************)
(* executeHook step by step, with hooks that change the store.  A plugin's *)
(* hook is arbitrary code: here it leaves the store alone or removes the   *)
(* directory of a version.  procs[1] is the dispatching process: the hook  *)
(* name, the context built at the start of the dispatch, the position in   *)
(* the registry, and the log of what each hook received and did.           *)
(***************************************************************************)
MaxDispatches == 2

NoDispatch ==
  [pc |-> "idle", hookName |-> "none", context |-> null, index |-> 0,
   dispatches |-> 0, log |-> <<>>]

\* What a hook does to the store.
HookEffects == {<<"none">>} \cup {<<"rmSync", v>> : v \in PlainIds}

hookEffect(s, effect) ==
  IF effect[1] = "rmSync" THEN rmSync(s, versionDirOf(effect[2])) ELSE s

\* The context argument of hook(...args, context), for a process p whose
\* loop has reached a hook while the store is s (listed in order).
hookContextFresh(p, s, order) == getPluginContext(s, order)

hookContext(p, s, order) == p.context

\* const context = this.getPluginContext();
ExecuteHook(hookName) ==
  /\ procs[1].pc = "idle"
  /\ procs[1].dispatches < MaxDispatches
  /\ \E order \in {sortVersions(o) : o \in Orders(readdirSync(store, versionsDir))} :
       procs' = [procs EXCEPT
                   ![1].pc = IF Len(plugins) = 0 THEN "idle" ELSE "loop",
                   ![1].hookName = hookName,
                   ![1].context = getPluginContext(store, order),
                   ![1].index = 1,
                   ![1].dispatches = @ + 1]
  /\ UNCHANGED <<files, symlinks, keepTarballs, plugins, last, probe>>

\* One round of for (const plugin of this.plugins): the plugin's hook, if it
\* has one, is called with the context and awaited; it may change the store
\* and may throw, which ends the dispatch.
InvokeHook ==
  /\ procs[1].pc = "loop"
  /\ \E effect \in HookEffects, threw \in BOOLEAN,
        order \in {sortVersions(o) : o \in Orders(readdirSync(store, versionsDir))} :
       LET me == procs[1]
           isFunction == me.hookName \in PluginHooks(plugins[me.index])
           s == IF isFunction THEN hookEffect(store, effect) ELSE store
           entry == [dispatch |-> me.dispatches, plugin |-> me.index,
                     hook |-> me.hookName, context |-> hookContext(me, store, order),
                     effect |-> effect, threw |-> threw]
       IN /\ procs' = [procs EXCEPT
                         ![1].log = IF isFunction THEN Append(@, entry) ELSE @,
                         ![1].index = @ + 1,
                         ![1].pc = IF (isFunction /\ threw) \/ me.index = Len(plugins)
                                   THEN "idle" ELSE "loop"]
          /\ files' = s.files
          /\ symlinks' = s.symlinks
  /\ UNCHANGED <<keepTarballs, plugins, last, probe>>

HookInit ==
  /\ plugins = <<1, 2>>
  /\ keepTarballs = FALSE
  /\ \E s \in PairStores : files = s.files /\ symlinks = s.symlinks
  /\ last = Idle
  /\ probe = NoProbe
  /\ procs = <<NoDispatch>>

HookNext ==
  \/ \E hookName \in {"beforeSwitch", "afterSwitch"} : ExecuteHook(hookName)
  \/ InvokeHook

HookSpec == HookInit /\ [][HookNext]_vars

(***************************************************************************)
(* Properties.  In an action formula the unprimed store is the store       *)
(* before the call and last' the call that was made.                       *)
(***************************************************************************)
currentTargets(s) == {l.target : l \in linkAt(s, currentLink)}
launcherTargets(s) == {l.target : l \in linkAt(s, cvmClaudeBin)}

\* The ActivePointer exists and its target directory does not.
Dangling(s) == \E target \in currentTargets(s) : target \notin s.files

Unchanged == files' = files /\ symlinks' = symlinks

\* C1: for an installed x that getCurrentVersion() returns, uninstall(x) and
\* clean(x) reject with the active-version-protected error and leave
\* versions/x and both pointers (the whole store) as they were.
C1_ActiveVersionProtected ==
  [][(/\ last'.op \in {"uninstall", "clean"}
      /\ isInstalled(store, last'.id)
      /\ getCurrentVersion(store) = last'.id)
     => (/\ last'.err = "ActiveVersionProtected"
         /\ Unchanged)]_vars

C1_Witness ==
  /\ last.op = "clean"
  /\ last.err = "ActiveVersionProtected"
  /\ isInstalled(store, last.id)
  /\ getCurrentVersion(store) = last.id

\* C2: whatever identifier string is passed, uninstall never deletes the
\* directory that the ActivePointer targets.
C2_UninstallNeverDeletesActive ==
  [][last'.op = "uninstall"
     => \A target \in currentTargets(store) : target \in files => target \in files']_vars

\* C3: after any sequence of completed calls the ActivePointer is absent or
\* targets a directory that exists.
C3_ActivePointerNotDangling == ~Dangling(store)

\* C4: install(x) when versions/x exists returns success, invokes no hook,
\* downloads nothing and leaves the store identical; and a successful
\* install leaves versions/x in place, so a second install is that no-op.
C4_InstallIdempotent ==
  [][last'.op = "install"
     => /\ isInstalled(store, last'.id)
           => (/\ last'.err = "none"
               /\ last'.hooks = <<>>
               /\ ~last'.fetched
               /\ Unchanged)
        /\ last'.err = "none" => isInstalled(store', last'.id)]_vars

C4_Witness ==
  /\ last.op = "install"
  /\ last.id \in PlainIds
  /\ plugins # <<>>
  /\ isInstalled(store, last.id)
  /\ last.err = "none"
  /\ last.hooks = <<>>
  /\ ~last.fetched

\* C5: when install(y) of a y that was not installed fails after the
\* download was started (download, extraction, dependency installation, or
\* a later step), it rejects with the installation-failed error and no
\* versions/y remains.
C5_RollbackOnFailedInstall ==
  [][(/\ last'.op = "install"
      /\ ~isInstalled(store, last'.id)
      /\ last'.fetched
      /\ last'.err # "none")
     => (/\ last'.err = "InstallFailed"
         /\ ~isInstalled(store', last'.id))]_vars

C5_Witness ==
  /\ last.op = "install"
  /\ last.id \in PlainIds
  /\ plugins = <<>>
  /\ last.fetched
  /\ last.err = "InstallFailed"
  /\ ~isInstalled(store, last.id)

\* C6 as claimed: after use(x) completes for an installed version x,
\* getCurrentVersion() returns x and the launcher pointer exists and targets
\* a path inside versions/x.
C6_SwitchAlwaysLinksLauncher ==
  [][(/\ last'.op = "use"
      /\ last'.id \in PlainIds
      /\ isInstalled(store, last'.id)
      /\ last'.err = "none")
     => (/\ getCurrentVersion(store') = last'.id
         /\ \E target \in launcherTargets(store') :
              IsPrefix(versionDirOf(last'.id), target))]_vars

\* C6 amended: after use(x) completes for an installed version x,
\* getCurrentVersion() returns x and the ActivePointer targets versions/x;
\* when x's binary exists the launcher pointer targets it, and when it does
\* not exist bin/claude resolves to no file.
C6_SwitchCorrectness ==
  [][(/\ last'.op = "use"
      /\ last'.id \in PlainIds
      /\ isInstalled(store, last'.id)
      /\ last'.err = "none")
     => (/\ getCurrentVersion(store') = last'.id
         /\ currentTargets(store') = {versionDirOf(last'.id)}
         /\ IF existsSync(store', claudeBinOf(last'.id))
            THEN launcherTargets(store') = {claudeBinOf(last'.id)}
            ELSE ~existsSync(store', cvmClaudeBin))]_vars

C6_Witness ==
  /\ last.op = "use"
  /\ last.id \in PlainIds
  /\ last.err = "none"
  /\ getCurrentVersion(store) = last.id
  /\ ~existsSync(store, claudeBinOf(last.id))
  /\ launcherTargets(store) = {}

\* C7: when the ActivePointer is dangling, use(z) of an installed z succeeds
\* (no hook throwing) and leaves the ActivePointer targeting versions/z and
\* the launcher pointer targeting z's binary.
C7_UseRepairsDanglingPointer ==
  [][(/\ last'.op = "use"
      /\ Dangling(store)
      /\ isInstalled(store, last'.id)
      /\ last'.err # "HookError")
     => (/\ last'.err = "none"
         /\ currentTargets(store') = {versionDirOf(last'.id)}
         /\ existsSync(store', claudeBinOf(last'.id))
              => launcherTargets(store') = {claudeBinOf(last'.id)})]_vars

\* C8: getCurrentVersion never throws; it returns none when the
\* ActivePointer does not exist and otherwise the last segment of the
\* recorded target, whether or not the target exists.
C8_GetCurrentVersion ==
  last.op = "current"
    => /\ last.err = "none"
       /\ currentTargets(store) = {} => last.ret = null
       /\ \A target \in currentTargets(store) : last.ret = <<target[Len(target)]>>

C8_Witness ==
  /\ last.op = "current"
  /\ Dangling(store)
  /\ last.ret \in PlainIds

\* C9: use(id), uninstall(id) and clean(id) for an id whose directory does
\* not exist reject with the not-installed error naming id, invoke no hook
\* and leave the store unchanged.
C9_NotInstalledRejected ==
  [][(/\ last'.op \in {"use", "uninstall", "clean"}
      /\ ~existsSync(store, versionDirOf(last'.id)))
     => (/\ last'.err = "NotInstalled"
         /\ last'.errId = last'.id
         /\ last'.hooks = <<>>
         /\ Unchanged)]_vars

C9_Witness ==
  /\ last.op = "use"
  /\ plugins # <<>>
  /\ ~existsSync(store, versionDirOf(last.id))
  /\ last.err = "NotInstalled"
  /\ last.errId = last.id

\* A beforeUninstall hook threw: the last hook invoked is a beforeUninstall
\* and the call rejected with its error.
BeforeUninstallThrew(call) ==
  /\ call.err = "HookError"
  /\ call.hooks # <<>>
  /\ call.hooks[Len(call.hooks)][2] = "beforeUninstall"

\* The call removed exactly the tree under versions/id and no link.
RemovedOnly(id) ==
  /\ files' = {q \in files : ~IsPrefix(versionDirOf(id), q)}
  /\ symlinks' = symlinks

\* C10 as claimed: uninstall(x) of an installed x that is not the active
\* version removes versions/x and leaves everything else unchanged.
C10_UninstallAlwaysRemoves ==
  [][(/\ last'.op = "uninstall"
      /\ isInstalled(store, last'.id)
      /\ getCurrentVersion(store) # last'.id)
     => (/\ ~isInstalled(store', last'.id)
         /\ RemovedOnly(last'.id))]_vars

\* C10 amended: uninstall(x) of an installed x that is not the active
\* version removes versions/x and leaves every other directory and both
\* pointers unchanged, unless a beforeUninstall hook throws, in which case
\* it changes nothing.
C10_UninstallFrame ==
  [][(/\ last'.op = "uninstall"
      /\ isInstalled(store, last'.id)
      /\ getCurrentVersion(store) # last'.id)
     => IF BeforeUninstallThrew(last')
        THEN Unchanged
        ELSE /\ ~isInstalled(store', last'.id)
             /\ RemovedOnly(last'.id)]_vars

C10_Witness ==
  /\ last.op = "uninstall"
  /\ last.id \in PlainIds
  /\ last.err = "none"
  /\ ~isInstalled(store, last.id)
  /\ \E other \in PlainIds : other # last.id /\ isInstalled(store, other)
  /\ getCurrentVersion(store) \in PlainIds \ {last.id}

\* The positions in the trace tr of the event ev.
At(tr, ev) == {k \in 1..Len(tr) : tr[k] = ev}

\* In the trace tr each event of the sequence evs occurs exactly once, in
\* the order of evs, and tr holds nothing else.
InOrder(tr, evs) ==
  /\ Len(tr) = Len(evs)
  /\ \A k \in 1..Len(evs) : Cardinality(At(tr, evs[k])) = 1
  /\ \A k \in 1..Len(evs), m \in 1..Len(evs) :
        k < m => \A a \in At(tr, evs[k]), b \in At(tr, evs[m]) : a < b

\* C11: a successful install(x) of a not-yet-installed x invokes the
\* beforeInstall hooks of the registered plugins in registration order, then
\* the download, then the afterInstall hooks in registration order, each
\* hook having returned before the next step.
C11_HookOrdering ==
  [][(/\ last'.op = "install"
      /\ ~isInstalled(store, last'.id)
      /\ last'.err = "none")
     => InOrder(last'.hooks,
                [i \in 1..Len(plugins) |-> <<i, "beforeInstall", "returned">>]
                  \o <<downloadEvent>>
                  \o [i \in 1..Len(plugins) |-> <<i, "afterInstall", "returned">>])]_vars

C11_Witness ==
  /\ last.op = "install"
  /\ last.err = "none"
  /\ Len(plugins) = 2
  /\ last.hooks = << <<1, "beforeInstall", "returned">>, <<2, "beforeInstall", "returned">>,
                     downloadEvent,
                     <<1, "afterInstall", "returned">>, <<2, "afterInstall", "returned">> >>

\* The positions of the trace tr at which a hook threw.
ThrewAt(tr) == {k \in 1..Len(tr) : tr[k][3] = "threw"}

BeforeHooks == {"beforeInstall", "beforeSwitch", "beforeUninstall"}

\* C12: when a hook throws, nothing follows it in the call: no hook of a
\* plugin registered later, no download, no after* hook; and when it is a
\* before* hook the store is as it was (no version directory created, both
\* pointers unchanged, the version directory in place).
C12_ThrowingHookAborts ==
  [][\A k \in ThrewAt(last'.hooks) :
       /\ k = Len(last'.hooks)
       /\ last'.err # "none"
       /\ last'.hooks[k][2] \in BeforeHooks
            => (/\ Unchanged
                /\ last'.op = "install" => ~isInstalled(store', last'.id))]_vars

C12_Witness ==
  /\ Len(plugins) = 2
  /\ "beforeInstall" \in PluginHooks(plugins[2])
  /\ last.op = "install"
  /\ last.id \in PlainIds
  /\ ~isInstalled(store, last.id)
  /\ last.hooks = << <<1, "beforeInstall", "threw">> >>

\* C13: when a plugin hook throws an error e, the enclosing install / use /
\* uninstall call rejects with that same error e, unmodified and unwrapped.
C13_HookErrorPropagatesUnmodified ==
  [][\A k \in ThrewAt(last'.hooks) :
       /\ last'.err = "HookError"
       /\ last'.errId = pluginError(last'.hooks[k][1], last'.hooks[k][2])]_vars

\* a precedes b in semantic-version order: major, then minor, then patch,
\* compared as integers.
SemverLess(a, b) ==
  LET x == parts(a)
      y == parts(b)
  IN \/ x[1] < y[1]
     \/ x[1] = y[1] /\ x[2] < y[2]
     \/ x[1] = y[1] /\ x[2] = y[2] /\ x[3] < y[3]

\* C14: getInstalledVersions returns the installed identifiers, each once,
\* in ascending semantic-version order, components of 100 or more included.
C14_ListingOrder ==
  last.op = "getInstalledVersions"
    => /\ {last.ret[k] : k \in 1..Len(last.ret)} = readdirSync(store, versionsDir)
       /\ \A k \in 1..Len(last.ret), m \in 1..Len(last.ret) :
            k < m => SemverLess(last.ret[k], last.ret[m])

\* What the probe reports for a subprocess that ended with the exit code
\* code having written output.
Verdict(output, code) ==
  IF includesMarker(output) THEN needsUpgrade
  ELSE IF code \in {"0", "null"} THEN viable
  ELSE exitedWith(code)

\* C15: when the timeout fires before the subprocess has exited, the
\* subprocess is killed and the probe resolves not-viable-needs-upgrade if
\* the accumulated output contains the upgrade marker, viable otherwise
\* (empty output included).
C15_TimeoutVerdict ==
  [][(/\ probe.timer = "armed"
      /\ probe'.timer = "fired"
      /\ probe.pc = "running")
     => (/\ probe'.signal = "SIGKILL"
         /\ probe'.result = IF includesMarker(probe.output) THEN needsUpgrade
                             ELSE viable)]_vars

C15_Witness ==
  /\ probe.handler = "timeout"
  /\ probe.pc = "running"
  /\ probe.signal = "SIGKILL"
  /\ probe.output = <<"hello">>
  /\ probe.result = viable

\* C16: as soon as the accumulated output contains the upgrade marker,
\* whichever stream delivered it, the probe kills the subprocess and
\* resolves not-viable-needs-upgrade, without waiting for exit or timeout.
C16_MarkerResolvesImmediately ==
  [][(/\ probe.pc = "running"
      /\ probe.result = pending
      /\ ~includesMarker(probe.output)
      /\ includesMarker(probe'.output))
     => (/\ probe'.result = needsUpgrade
         /\ probe'.signal # "none")]_vars

\* C17: when the subprocess exits before the timeout, the probe resolves
\* not-viable-needs-upgrade if the output contains the marker, else viable
\* for exit code 0 or null, else not-viable-other carrying the exit code.
\* (The timeout's SIGKILL reaches only a subprocess that has not exited.)
C17_ExitVerdict ==
  [][(/\ probe.pc = "exited"
      /\ probe'.pc = "closed"
      /\ probe.signal # "SIGKILL")
     => probe'.result = Verdict(probe'.output, probe'.code)]_vars

TreeOf(s, name) == {q \in s.files : IsPrefix(versionDirOf(<<name>>), q)}

\* The versions that cleanExcept must leave alone: the keep-set and the
\* current active version.
Protected(s, keep) == {id[1] : id \in keep} \cup {getCurrentVersion(s)[k] : k \in DOMAIN getCurrentVersion(s)}

\* C19: cleanExcept(keep) never cleans a version in keep nor the current
\* active version, attempts clean once on every other installed version,
\* and a clean that fails neither stops the remaining versions from being
\* cleaned nor makes cleanExcept reject.
C19_CleanExcept ==
  [][last'.op = "cleanExcept"
     => /\ last'.err = "none"
        /\ symlinks' = symlinks
        /\ \A name \in readdirSync(store, versionsDir) :
             IF name \in Protected(store, last'.keep)
             THEN /\ TreeOf(store', name) = TreeOf(store, name)
                  /\ \A k \in 1..Len(last'.hooks) : last'.hooks[k][2] # name
             ELSE /\ Cardinality({k \in 1..Len(last'.hooks) : last'.hooks[k][2] = name}) = 1
                  /\ \A k \in 1..Len(last'.hooks) :
                       last'.hooks[k][2] = name
                         => IF last'.hooks[k][3] = "failed"
                            THEN TreeOf(store', name) = TreeOf(store, name)
                            ELSE TreeOf(store', name)
                                   = TreeOf(clean(store, <<name>>, keepTarballs).store, name)]_vars

C19_Witness ==
  /\ last.op = "cleanExcept"
  /\ Len(last.hooks) = 2
  /\ last.hooks[1][3] = "failed"
  /\ last.hooks[2][3] = "cleaned"
  /\ isInstalled(store, <<last.hooks[1][2]>>)
  /\ ~isInstalled(store, <<last.hooks[2][2]>>)

\* C20: with keepTarballs disabled, clean(x) of an installed non-active x
\* leaves the same store as uninstall(x) and invokes the same plugin hooks
\* (beforeUninstall before the removal, afterUninstall after it).
C20_CleanIsUninstall ==
  [][(/\ last'.op = "clean"
      /\ ~keepTarballs
      /\ last'.id \in PlainIds
      /\ isInstalled(store, last'.id)
      /\ getCurrentVersion(store) # last'.id)
     => (/\ store' = uninstall(store, last'.id, 0, 0).store
         /\ last'.hooks = uninstall(store, last'.id, 0, 0).hooks)]_vars

\* Both use processes of a race have ended.
BothEnded == Len(procs) = 2 /\ \A p \in DOMAIN procs : procs[p].pc = "done"

RaceTargets == {versionDirOf(procs[p].id) : p \in DOMAIN procs}

\* C21 as claimed: when use(a) and use(b) run concurrently on a store where
\* both are installed, both calls complete without error and the
\* ActivePointer ends targeting versions/a or versions/b.
C21_ConcurrentUseBothComplete ==
  BothEnded
    => /\ \A p \in DOMAIN procs : procs[p].err = "none"
       /\ currentTargets(store) # {}
       /\ currentTargets(store) \subseteq RaceTargets

\* C21 as the code has it: each of the two calls completes or rejects with a
\* filesystem error (ENOENT from unlinkSync, EEXIST from symlinkSync), and at
\* least one of them completes; once both have ended the ActivePointer exists
\* and targets versions/a or versions/b; and the pointer only ever changes by
\* being removed or by one call's symlinkSync setting it to that call's own
\* version, so that it ends at the version whose symlinkSync ran last.
C21_LastSwitchWins ==
  /\ [](BothEnded
          => /\ \A p \in DOMAIN procs : procs[p].err \in {"none", "ENOENT", "EEXIST"}
             /\ \E p \in DOMAIN procs : procs[p].err = "none"
             /\ currentTargets(store) # {}
             /\ currentTargets(store) \subseteq RaceTargets)
  /\ [][currentTargets(store') # currentTargets(store)
          => \/ currentTargets(store') = {}
             \/ \E p \in DOMAIN procs :
                  /\ procs[p].pc = "currentSymlink"
                  /\ procs'[p].pc = "binExists"
                  /\ currentTargets(store') = {versionDirOf(procs[p].id)}]_vars

C21_Witness ==
  /\ BothEnded
  /\ procs[1].err = "ENOENT"
  /\ procs[2].err = "none"
  /\ currentTargets(store) = {versionDirOf(procs[2].id)}
  /\ launcherTargets(store) = {claudeBinOf(procs[2].id)}

\* C22: cvm claude --cvm-version X spawns the binary inside versions/X when X
\* is installed and its binary exists, and nothing else; it leaves the store
\* (both pointers included) as it was, so that a launch without the flag
\* still spawns the binary of the active version; when X is not installed it
\* ends with the not-installed error and spawns nothing.
C22_OneOffOverride ==
  [][(procs[1].pc = "idle" /\ procs'[1].op = "claude")
     => LET X == procs'[1].id
            r == procs'[1]
        IN /\ Unchanged
           /\ (X # null /\ isInstalled(store, X))
                => /\ r.ret \in {null, claudeBinOf(X)}
                   /\ existsSync(store, claudeBinOf(X))
                        => (r.err = "none" /\ r.ret = claudeBinOf(X))
           /\ (X # null /\ ~isInstalled(store, X))
                => (r.err = "NotInstalled" /\ r.ret = null)
           /\ X = null
                => /\ r.ret # null => getCurrentVersion(store) # null
                   /\ r.ret \in {null, claudeBinOf(getCurrentVersion(store))}]_vars

C22_Witness ==
  /\ procs[1].op = "claude"
  /\ procs[1].id \in PlainIds
  /\ getCurrentVersion(store) \notin {null, procs[1].id}
  /\ launcherTargets(store) = {claudeBinOf(getCurrentVersion(store))}
  /\ procs[1].err = "none"
  /\ procs[1].ret = claudeBinOf(procs[1].id)

\* C23: after an install that fails at a step of the installation (download,
\* extraction, dependency installation), nothing that the install created
\* remains under the cvm root: every file and directory present afterwards
\* was present before, in versions/ and in the shared temp directory alike.
C23_FailedInstallLeavesNothing ==
  [][(last'.op = "install" /\ last'.err = "InstallFailed")
     => files' \subseteq files]_vars

\* C24: an install(v) that returns without error leaves v with a runnable
\* artifact (the binary inside versions/v), also when an earlier install of
\* v was killed after versions/v and versions/v/raw were created.
C24_InstallAfterKilledInstall ==
  (procs[1].op = "install" /\ procs[1].pc = "done" /\ procs[1].err = "none")
    => existsSync(store, claudeBinOf(procs[1].id))

Range(seq) == {seq[i] : i \in DOMAIN seq}

\* C25: after the plugins directory was loaded, no two plugins registered on
\* the hook bus have the same metadata name, and the plugins on the hook bus
\* are exactly those that PluginLoader.getPlugins() returns.
C25_PluginNameUnique ==
  last.op = "loadPlugins"
    => /\ \A i, j \in DOMAIN plugins :
            metadataName(plugins[i]) = metadataName(plugins[j]) => i = j
       /\ Range(plugins) = Range(last.ret)

\* The binary inside the directory that the ActivePointer targets.
ActiveBinaries(s) ==
  {pathJoin(d, <<"installed", "node_modules", ".bin", "claude">>) : d \in currentTargets(s)}

\* C26: after any sequence of completed calls the launcher pointer, if it
\* exists, targets the binary inside the directory that the ActivePointer
\* targets; and after a successful use(x) it is absent or targets the binary
\* inside versions/x, never that of a version active before.
C26_LauncherNeverStale ==
  /\ [](launcherTargets(store) \subseteq ActiveBinaries(store))
  /\ [][(last'.op = "use" /\ last'.err = "none")
          => launcherTargets(store') \subseteq {claudeBinOf(last'.id)}]_vars

\* C27: use(id) leaves the store untouched up to and including the dispatch
\* of beforeSwitch; it captures prev = getCurrentVersion() before any
\* dispatch; beforeSwitch is dispatched with (prev, id) while the
\* ActivePointer still reads prev; afterSwitch is dispatched with the same
\* prev and id when the ActivePointer targets versions/id and the launcher
\* pointer targets the binary of id (if id has one).
C27_SwitchHookOrder ==
  [][LET q == procs[1]
         r == procs'[1]
     IN q.op = "use"
        => /\ q.pc \in {"check", "getCurrentVersion", "beforeSwitch"} => Unchanged
           /\ q.pc = "getCurrentVersion"
                => (r.prev = getCurrentVersion(store) /\ q.log = <<>>)
           /\ q.pc = "beforeSwitch"
                => /\ Len(r.log) = 1
                   /\ r.log[1].hook = "beforeSwitch"
                   /\ r.log[1].args = <<q.prev, q.id>>
                   /\ getCurrentVersion(store) = q.prev
           /\ q.pc = "afterSwitch"
                => /\ Len(r.log) = 2
                   /\ r.log[2].hook = "afterSwitch"
                   /\ r.log[2].args = <<r.log[1].args[1], q.id>>
                   /\ currentTargets(store) = {versionDirOf(q.id)}
                   /\ existsSync(store, claudeBinOf(q.id))
                        => launcherTargets(store) = {claudeBinOf(q.id)}]_vars

C27_Witness ==
  /\ procs[1].op = "use"
  /\ procs[1].pc = "done"
  /\ procs[1].err = "none"
  /\ procs[1].prev \notin {null, procs[1].id}
  /\ Len(procs[1].log) = 2
  /\ procs[1].log[1].calls # <<>>
  /\ procs[1].log[2].hook = "afterSwitch"
  /\ procs[1].log[2].calls # <<>>
  /\ procs[1].log[2].args = <<procs[1].prev, procs[1].id>>
  /\ currentTargets(store) = {versionDirOf(procs[1].id)}

\* The context handed to the hooks by the dispatch that a step made.
Handed(r) == r.log[Len(r.log)].context

Lists(context, name) ==
  \E i \in DOMAIN context.installedVersions : context.installedVersions[i] = name

\* The name of the directory versions/id.
DirName(id) == basename(versionDirOf(id))

C29_CleanKeepsRawArtifact ==
  [][(/\ last'.op = "clean"
      /\ keepTarballs
      /\ isInstalled(store, last'.id)
      /\ versionDirOf(last'.id) \notin currentTargets(store))
     => LET versionDir == versionDirOf(last'.id)
            removed == {q \in files : \/ IsPrefix(pathJoin(versionDir, <<"installed">>), q)
                                      \/ IsPrefix(pathJoin(versionDir, <<"extracted">>), q)}
        IN /\ last'.err = "none"
           /\ files' = files \ removed
           /\ symlinks' = symlinks
           /\ {q \in files : IsPrefix(pathJoin(versionDir, <<"raw">>), q)} \subseteq files'
           /\ isInstalled(store', last'.id)
           /\ ~existsSync(store', claudeBinOf(last'.id))]_vars

C29_Witness ==
  /\ last.op = "clean"
  /\ last.err = "none"
  /\ keepTarballs
  /\ isInstalled(store, last.id)
  /\ ~existsSync(store, pathJoin(versionDirOf(last.id), <<"installed">>))
  /\ ~existsSync(store, pathJoin(versionDirOf(last.id), <<"extracted">>))
  /\ existsSync(store, pathJoin(versionDirOf(last.id), <<"raw">>) \o tarballName(last.id))
  /\ getCurrentVersion(store) \notin {null, last.id}
  /\ existsSync(store, claudeBinOf(getCurrentVersion(store)))

\* What lies under versions/ outside the directory of id.
OtherVersions(s, id) ==
  {q \in s.files : /\ IsPrefix(versionsDir, q)
                   /\ Len(q) > Len(versionsDir)
                   /\ ~IsPrefix(versionDirOf(id), q)}

\* C30: install(x), whether it returns or rejects, changes neither the
\* ActivePointer nor the launcher pointer (no symbolic link at all), and
\* nothing in the directory of a version other than x.
C30_InstallFrame ==
  [][last'.op = "install"
     => /\ symlinks' = symlinks
        /\ OtherVersions(store', last'.id) = OtherVersions(store, last'.id)]_vars

C30_Witness ==
  /\ last.op = "install"
  /\ last.err = "InstallFailed"
  /\ last.id \in PlainIds
  /\ ~isInstalled(store, last.id)
  /\ OtherVersions(store, last.id) # {}
  /\ currentTargets(store) # {}
  /\ launcherTargets(store) # {}

\* The entries of a trace that are invocations of a plugin's hook.
HookCalls(tr) == {k \in DOMAIN tr : tr[k][1] > 0}

\* C31: registerPlugin appends the plugin at the end of the registry and
\* invokes its onLoad, if it has one, exactly once and no other hook, leaving
\* the store as it was; no step ever removes or reorders a registered
\* plugin; and every other call invokes no onLoad and visits the plugins of
\* each dispatch in registration order.
C31_RegisterPlugin ==
  [][/\ last'.op = "registerPlugin"
          => /\ Len(plugins') = Len(plugins) + 1
             /\ last'.hooks = IF hasOnLoad(plugins'[Len(plugins')])
                              THEN << <<Len(plugins'), "onLoad", "returned">> >>
                              ELSE <<>>
             /\ Unchanged
     /\ Len(plugins') >= Len(plugins)
     /\ SubSeq(plugins', 1, Len(plugins)) = plugins
     /\ last'.op # "registerPlugin"
          => /\ plugins' = plugins
             /\ \A k \in HookCalls(last'.hooks) : last'.hooks[k][2] \in AllHooks
             /\ \A j, k \in HookCalls(last'.hooks) :
                  (j < k /\ last'.hooks[j][2] = last'.hooks[k][2])
                    => last'.hooks[j][1] < last'.hooks[k][1]]_vars

C31_Witness ==
  /\ last.op = "registerPlugin"
  /\ plugins = <<1, 2>>
  /\ last.hooks = << <<2, "onLoad", "returned">> >>
  /\ isInstalled(store, <<VersionNames[1]>>)

\* The files of the plugins directory that load: plugin files whose module
\* has metadata.
Loadable(s) == {k \in pluginFilesIn(s) : isPluginFile(k) /\ metadataName(k) # ""}

\* C32: loadPlugin rejects for a path that does not exist and for a module
\* without metadata, and the loader's registry then holds nothing; it loads
\* any other file.  loadPluginsFromDirectory returns (and loadPlugins
\* registers) every file of the directory that loads, each once, and none
\* that fails, whatever the order of the listing.
C32_LoaderSkipsFailures ==
  /\ last.op = "loadPlugin"
       => LET k == CHOOSE k \in DOMAIN PluginFiles : <<PluginFiles[k]>> = last.id
          IN IF k \in pluginFilesIn(store) /\ metadataName(k) # ""
             THEN last.err = "none" /\ last.ret = <<k>>
             ELSE /\ last.ret = <<>>
                  /\ last.err = IF k \in pluginFilesIn(store) THEN "FailedToLoad"
                                ELSE "PluginNotFound"
  /\ last.op = "loadPlugins"
       => /\ last.err = "none"
          /\ Range(plugins) = Loadable(store)
          /\ Len(plugins) = Cardinality(Loadable(store))
          /\ Range(last.ret) \subseteq Loadable(store)

C32_Witness ==
  /\ last.op = "loadPlugins"
  /\ pluginsDir \o <<"broken.js">> \in files
  /\ pluginsDir \o <<"README.md">> \in files
  /\ Len(plugins) = 2
  /\ \A i \in DOMAIN plugins : metadataName(plugins[i]) \notin {"", "analyzer"}

\* Process 1 runs use(v) and process 2 uninstall(v), and both have returned
\* without error.
UseAndUninstallReturned ==
  /\ Len(procs) = 2
  /\ procs[1].op = "use" /\ procs[2].op = "uninstall"
  /\ \A p \in {1, 2} : procs[p].pc = "done" /\ procs[p].err = "none"

\* C33: when use(v) and uninstall(v) run concurrently and both return
\* without error (uninstall's active-version check ran before use repointed
\* the ActivePointer, its deletion after use's installed check), the
\* ActivePointer targets versions/v while versions/v no longer exists; that
\* state is reachable.
C33_UseUninstallRace ==
  UseAndUninstallReturned
    => /\ currentTargets(store) = {versionDirOf(procs[1].id)}
       /\ ~isInstalled(store, procs[1].id)
       /\ Dangling(store)

C33_Witness ==
  /\ UseAndUninstallReturned
  /\ procs[1].id = procs[2].id
  /\ currentTargets(store) = {versionDirOf(procs[1].id)}
  /\ versionDirOf(procs[1].id) \notin files

C35_RollbackSparesActive ==
  [][\A p \in DOMAIN procs :
       (/\ procs[p].op = "install"
        /\ procs[p].pc = "catch"
        /\ procs'[p].pc = "done")
         => \A target \in currentTargets(store) :
              target \in files => target \in files']_vars

\* C36: when install(a) and install(b), a # b, run concurrently and neither
\* registry download, extraction nor dependency installation fails, both
\* calls complete without error and both a and b end installed with their
\* binaries in place.
C36_ConcurrentInstallsBothSucceed ==
  (/\ BothEnded
   /\ \A p \in DOMAIN procs :
        procs[p].op = "install" /\ procs[p].cause \notin {"download", "extract", "npm"})
    => \A p \in DOMAIN procs :
         /\ procs[p].err = "none"
         /\ isInstalled(store, procs[p].id)
         /\ claudeBinOf(procs[p].id) \in files

\* C37: a probe that got as far as spawning (the version is installed and
\* its binary exists, so the timer is armed) resolves, whatever the order of
\* the output, exit, close, error and timeout events: once the timer has
\* fired or has been cleared the promise is settled, so it is settled no
\* later than the timeout; it is eventually settled; and a settled outcome
\* is never replaced by an event that arrives afterwards.
C37_ProbeResolvesOnce ==
  /\ [](probe.timer \in {"fired", "cleared"} => probe.result # pending)
  /\ [][probe.result # pending => probe'.result = probe.result]_vars
  /\ ((probe.timer = "armed") ~> (probe.result # pending))

\* 'close' arrives after the timeout has settled the promise, and after the
\* 'error' of a failed spawn has.
C37_Witness ==
  /\ probe.handler = "close"
  /\ probe.result # pending
  /\ probe.timedOut \/ probe.result = failedToSpawn

\* C38: when install(x) has fetched and installed the artifact and an
\* afterInstall hook then throws, the call rejects with the
\* installation-failed error, versions/x is gone (isInstalled(x) is false),
\* and the throwing hook is the last thing the call invoked: no afterInstall
\* of a plugin registered later runs.
C38_AfterInstallThrowRollsBack ==
  [][\A k \in ThrewAt(last'.hooks) :
       (last'.op = "install" /\ last'.hooks[k][2] = "afterInstall")
         => /\ last'.fetched
            /\ last'.err = "InstallFailed"
            /\ ~isInstalled(store', last'.id)
            /\ versionDirOf(last'.id) \notin files'
            /\ k = Len(last'.hooks)
            /\ \A j \in HookCalls(last'.hooks) :
                 last'.hooks[j][2] = "afterInstall" => last'.hooks[j][1] <= last'.hooks[k][1]]_vars

C38_Witness ==
  /\ last.op = "install"
  /\ last.id \in PlainIds
  /\ last.fetched
  /\ Len(plugins) = 2
  /\ "afterInstall" \in PluginHooks(plugins[2])
  /\ last.hooks # <<>>
  /\ last.hooks[Len(last.hooks)] = <<1, "afterInstall", "threw">>
  /\ last.err = "InstallFailed"
  /\ ~isInstalled(store, last.id)

\* C39: the context of a dispatch is computed once, from the store as it is
\* when the dispatch starts, and every hook of that dispatch receives that
\* same snapshot: what an earlier hook of the dispatch did to the store does
\* not show in the context a later hook receives, and shows in the context
\* of the next dispatch.
C39_OneSnapshotPerDispatch ==
  /\ [](\A j, k \in DOMAIN procs[1].log :
          procs[1].log[j].dispatch = procs[1].log[k].dispatch
            => procs[1].log[j].context = procs[1].log[k].context)
  /\ [][/\ procs'[1].dispatches # procs[1].dispatches
          => \E order \in {sortVersions(o) : o \in Orders(readdirSync(store, versionsDir))} :
               procs'[1].context = getPluginContext(store, order)
        /\ procs'[1].dispatches = procs[1].dispatches
          => procs'[1].context = procs[1].context
        /\ Len(procs'[1].log) > Len(procs[1].log)
          => procs'[1].log[Len(procs'[1].log)].context = procs[1].context]_vars

\* The first plugin's hook removed an installed version; the second plugin's
\* hook of the same dispatch still received a context listing it; a hook of
\* the next dispatch received one without it.
C39_Witness ==
  /\ Len(procs[1].log) >= 3
  /\ LET e1 == procs[1].log[1]
         e2 == procs[1].log[2]
         e3 == procs[1].log[3]
     IN /\ e1.dispatch = 1 /\ e1.plugin = 1
        /\ e1.effect[1] = "rmSync"
        /\ Lists(e1.context, DirName(e1.effect[2]))
        /\ e2.dispatch = 1 /\ e2.plugin = 2
        /\ Lists(e2.context, DirName(e1.effect[2]))
        /\ e3.dispatch = 2
        /\ ~Lists(e3.context, DirName(e1.effect[2]))

====
